---- MODULE Spec2Model ----
(***************************************************************************)
(* A model of jekyll.py, the Opalstack installer of a Jekyll demo site.    *)
(*                                                                         *)
(* One process runs main() from top to bottom; `pc` is its position.  The  *)
(* account's state (the filesystem under the app directory, the user's     *)
(* crontab, temporary files left in the home directory) outlives a run, so *)
(* the model lets main() run up to MaxRuns times in sequence.              *)
(*                                                                         *)
(* What the outside world answers (an API response, a command's exit       *)
(* status and output, a filesystem fault) is drawn nondeterministically.   *)
(*                                                                         *)
(* Abstractions:                                                           *)
(*  - a byte string printed by a command, and a crontab, is a sequence of  *)
(*    newline-terminated lines; a line of kind "bad" holds bytes that are  *)
(*    not valid UTF-8;                                                     *)
(*  - a URL is a sequence of one-character strings;                        *)
(*  - a file is its kind and its mode bits; the site tree is the number of *)
(*    the run that scaffolded it.                                          *)
(***************************************************************************)
EXTENDS Integers, Sequences, FiniteSets, TLC

\* ---------------------------------------------------------------- bounds

\* How many times main() is run on the account.
MaxRuns == 2
\* random.randint(0, 9) draws the minute digit; the model draws 0..MaxMinute.
MaxMinute == 1
\* Longest host name tried as an API_URL override.
MaxHostLen == 3

\* ------------------------------------------------------ program constants

\* perms=0o600, the default of create_file and download
DefaultPerms == 384
\* perms=0o700 of start_jekyll and stop_jekyll
ScriptPerms == 448
\* perms=0o644 of the sample post and the README
PublicPerms == 420

API_BASE_URI == "/api/v1"

HTTPS == <<"h", "t", "t", "p", "s", ":", "/", "/">>
HTTP == <<"h", "t", "t", "p", ":", "/", "/">>
\* 'https://my.opalstack.com', the default of os.environ.get('API_URL', ...)
DefaultApiUrl ==
    HTTPS \o <<"m", "y", ".", "o", "p", "a", "l", "s", "t", "a", "c", "k",
               ".", "c", "o", "m">>

\* ------------------------------------------------------------- str.strip

Chars(s) == {s[i] : i \in DOMAIN s}

RECURSIVE lstrip(_, _)
lstrip(s, chars) ==
    IF s # <<>> /\ Head(s) \in chars THEN lstrip(Tail(s), chars) ELSE s

RECURSIVE rstrip(_, _)
rstrip(s, chars) ==
    IF s # <<>> /\ s[Len(s)] \in chars
    THEN rstrip(SubSeq(s, 1, Len(s) - 1), chars)
    ELSE s

\* str.strip(chars): drops, at both ends, every character that is in chars.
strip(s, chars) == rstrip(lstrip(s, chars), chars)

\* API_HOST = os.environ.get('API_URL', default).strip('https://').strip('http://')
ApiHostOf(url) == strip(strip(url, Chars(HTTPS)), Chars(HTTP))

\* ----------------------------------------------------------- byte strings

UserLine == [kind |-> "user", m |-> 0]
BadLine == [kind |-> "bad", m |-> 0]
JunkLine == [kind |-> "junk", m |-> 0]
OutLine == [kind |-> "out", m |-> 0]

\* bytes.decode(): UTF-8, strict.
decode(b) ==
    IF \E i \in DOMAIN b : b[i].kind = "bad"
    THEN [raised |-> "UnicodeDecodeError", text |-> <<>>]
    ELSE [raised |-> "none", text |-> b]

\* ------------------------------------------------------------ run_command

\* How a command can end: exit status zero, exit status non-zero, or the
\* executable cannot be launched (subprocess raises OSError).
Exits == {"zero", "nonzero", "nolaunch"}

\* What a command other than crontab may print on stdout: text, or bytes
\* that are not valid UTF-8.
Outs == {<<OutLine>>, <<BadLine>>}

\* run_command without its except clause: CalledProcessError propagates.
run_command_raising(exit, out) ==
    IF exit = "nolaunch"
    THEN [raised |-> "OSError", result |-> <<>>]
    ELSE IF exit = "nonzero"
    THEN [raised |-> "CalledProcessError", result |-> <<>>]
    ELSE [raised |-> "none", result |-> out]

\* run_command: check_output's result; on CalledProcessError, e.output.
run_command(exit, out) ==
    IF exit = "nolaunch"
    THEN [raised |-> "OSError", result |-> <<>>]
    ELSE [raised |-> "none", result |-> out]

NoCmd == [cmd |-> "none", exit |-> "zero", out |-> <<>>,
          raised |-> "none", result |-> <<>>]

Ran(cmd, exit, out) ==
    LET r == run_command(exit, out)
    IN  [cmd |-> cmd, exit |-> exit, out |-> out,
         raised |-> r.raised, result |-> r.result]

\* ------------------------------------------------------------- filesystem

Paths == {"appdir", "tmpdir", "site", "posts", "post", "start", "stop",
          "readme"}
FilePaths == {"post", "start", "stop", "readme"}

Absent == [kind |-> "absent", mode |-> 0]
Dir == [kind |-> "dir", mode |-> 0]
File(mode) == [kind |-> "file", mode |-> mode]

\* Modes a file may have been left with before the first run: 0444, 0777.
PrevModes == {292, 511}

\* The mode open(path, 'w') gives a new file: 0666 masked by the process
\* umask (022 or 077).
NewFileModes == {420, 384}

\* The owner-write bit, 0200.
OwnerWritable(mode) == (mode \div 128) % 2 = 1

Pristine == [p \in Paths |-> Absent]
Installed(mode) ==
    [p \in Paths |-> IF p \in FilePaths THEN File(mode) ELSE Dir]
InitFilesystems == {Pristine} \cup {Installed(m) : m \in PrevModes}

\* create_file without its os.chmod: the file keeps the mode it was opened
\* with.
create_file_no_chmod(fsv, path, perms, wfault, newmode) ==
    IF fsv[path].kind = "file" /\ ~OwnerWritable(fsv[path].mode)
    THEN [raised |-> "OSError", fs |-> fsv]
    ELSE LET opened == IF fsv[path].kind = "file" THEN fsv[path]
                       ELSE File(newmode)
         IN  [raised |-> IF wfault THEN "OSError" ELSE "none",
              fs |-> [fsv EXCEPT ![path] = opened]]

\* create_file(path, contents, writemode='w', perms): open, write, chmod.
\* wfault: the write fails after the open succeeded (say, the disk is full).
create_file(fsv, path, perms, wfault, newmode) ==
    IF fsv[path].kind = "file" /\ ~OwnerWritable(fsv[path].mode)
    THEN [raised |-> "OSError", fs |-> fsv]
    ELSE LET opened == IF fsv[path].kind = "file" THEN fsv[path]
                       ELSE File(newmode)
         IN  IF wfault
             THEN [raised |-> "OSError",
                   fs |-> [fsv EXCEPT ![path] = opened]]
             ELSE [raised |-> "none",
                   fs |-> [fsv EXCEPT ![path] = File(perms)]]

\* ---------------------------------------------------------------- crontab

JobLine(m) == [kind |-> "start_jekyll", m |-> m]
InitCrontabs == {<<>>, <<UserLine>>, <<BadLine>>}
\* What a failing `crontab -l` may have printed on stdout.
FailOuts == {<<>>, <<JunkLine>>}

\* ------------------------------------------------------------------ state

VARIABLES
    run,          \* number of runs of main() started
    pc,           \* position of the current run in main()
    fault,        \* the exception that ended the run ("none" if none)
    exitStatus,   \* the process's exit status (-1 while it runs)
    opal_token,   \* args.opal_token
    loginResp,    \* the login response's token field, once received
    authtoken,    \* the token in api.headers
    calls,        \* the API requests of this run, in order
    fs,           \* the files and directories under the app directory
    siteTree,     \* the run that scaffolded demo-site (0: before any run)
    tmpfiles,     \* the runs whose crontab temp file exists
    crontab,      \* the user's installed crontab
    last,         \* the last run_command call of this run
    ncmds,        \* number of commands launched in this run
    croncmd,      \* the line add_cronjob was given in this run
    cronBefore,   \* the crontab when add_cronjob was entered
    tmpContent,   \* what add_cronjob wrote to its temp file
    fs0,          \* fs when this run started
    cron0,        \* crontab when this run started
    cronInit,     \* crontab before the first run
    stepsDone,    \* the steps of main() this run completed
    scaffoldLog,  \* one entry per scaffold step reached, over all runs
    written,      \* the files create_file returned for in this run
    ndone,        \* runs that reached the end of main()
    nfailed,      \* runs that ended early
    api_url,      \* the API_URL the process reads
    API_HOST      \* the host it derives

vars == <<run, pc, fault, exitStatus, opal_token, loginResp, authtoken, calls,
          fs, siteTree, tmpfiles, crontab, last, ncmds, croncmd, cronBefore,
          tmpContent, fs0, cron0, cronInit, stepsDone, scaffoldLog, written,
          ndone, nfailed, api_url, API_HOST>>

\* The steps of main(), in program order.
Steps == <<"init_api", "app_read", "mkdirs", "gem_install", "gem_user_dir",
           "jekyll_version", "scaffold", "chdir", "mk_posts", "sample_post",
           "build", "start_script", "stop_script", "cron_list",
           "cron_install", "cron_rm", "readme", "notify">>

StepIndex(s) == CHOOSE i \in DOMAIN Steps : Steps[i] = s

\* main() with the notification moved up, right after the build.
NextStepNotifyEarly(s) ==
    IF s = "build" THEN "notify"
    ELSE IF StepIndex(s) = Len(Steps) THEN "done"
    ELSE Steps[StepIndex(s) + 1]

\* The statement that follows step s in main().
NextStep(s) ==
    IF StepIndex(s) = Len(Steps) THEN "done" ELSE Steps[StepIndex(s) + 1]

\* The run is over: main() returned, sys.exit(1), or an exception.
Ended == pc \in {"done", "exited", "crashed"}


apiVars == <<opal_token, loginResp, authtoken, calls>>
cronVars == <<crontab, croncmd, cronBefore, tmpContent, tmpfiles>>
fsVars == <<fs, siteTree, scaffoldLog, written>>
cmdVars == <<last, ncmds>>
runVars == <<run, fs0, cron0, cronInit, ndone, api_url, API_HOST>>

\* The account before the first run: what the app directory holds, the
\* user's crontab, and the API_URL the process will read.
InitWith(filesystems, crontabs, urls) ==
    /\ run = 0
    /\ pc = "idle"
    /\ fault = "none"
    /\ exitStatus = -1
    /\ opal_token = ""
    /\ loginResp = "none"
    /\ authtoken = ""
    /\ calls = <<>>
    /\ fs \in filesystems
    /\ siteTree = 0
    /\ tmpfiles = {}
    /\ crontab \in crontabs
    /\ last = NoCmd
    /\ ncmds = 0
    /\ croncmd = JobLine(0)
    /\ cronBefore = <<>>
    /\ tmpContent = <<>>
    /\ fs0 = fs
    /\ cron0 = crontab
    /\ cronInit = crontab
    /\ stepsDone = {}
    /\ scaffoldLog = <<>>
    /\ written = {}
    /\ ndone = 0
    /\ nfailed = 0
    /\ api_url \in urls
    /\ API_HOST = <<>>

Init == InitWith(InitFilesystems, InitCrontabs, {DefaultApiUrl})

\* An unhandled exception (or sys.exit(1)) ends the run where it is.
Raise(f) ==
    /\ pc' = IF f = "SystemExit" THEN "exited" ELSE "crashed"
    /\ fault' = f
    /\ exitStatus' = 1
    /\ nfailed' = nfailed + 1
    /\ UNCHANGED stepsDone

\* The step returned: main() goes on with the next statement.
Advance ==
    /\ pc' = NextStep(pc)
    /\ stepsDone' = stepsDone \cup {pc}
    /\ UNCHANGED <<fault, exitStatus, nfailed>>

\* ------------------------------------------------------------- API client

Tokens == {"", "tokA"}
\* The login exchange: a fault, a JSON object without a token field, one
\* with an empty token, one with a token.
LoginResps == {"fault", "missing", "", "tokS"}

Headers(tok) == [ctype |-> "application/json", auth |-> <<"Token", tok>>]

LoginCall(host) ==
    [method |-> "POST", host |-> host,
     endpoint |-> <<API_BASE_URI, "/login/">>,
     headers |-> [ctype |-> "application/json", auth |-> <<>>],
     payload |-> <<"username", "user1", "password", "pass1">>]

\* OpalstackAPITool.get
get(host, tok, endpoint) ==
    [method |-> "GET", host |-> host,
     endpoint |-> <<API_BASE_URI>> \o endpoint,
     headers |-> Headers(tok), payload |-> <<>>]

\* OpalstackAPITool.post
post(host, tok, endpoint, payload) ==
    [method |-> "POST", host |-> host,
     endpoint |-> <<API_BASE_URI>> \o endpoint,
     headers |-> Headers(tok), payload |-> payload]

\* __init__ logging in whether or not a token was given.
NeedsLoginAlways(token) == TRUE

\* Whether __init__ logs in with the credentials.
NeedsLogin(token) == token = ""

\* __init__ without its sys.exit(1): it goes on with whatever the token
\* field held.
OpalstackAPIToolNoExit(host, token, resp) ==
    IF ~NeedsLogin(token)
    THEN [calls |-> <<>>, raised |-> "none", authtoken |-> token]
    ELSE IF resp = "fault"
    THEN [calls |-> <<LoginCall(host)>>, raised |-> "HTTPException",
          authtoken |-> ""]
    ELSE [calls |-> <<LoginCall(host)>>, raised |-> "none",
          authtoken |-> IF resp = "missing" THEN "" ELSE resp]

\* OpalstackAPITool.__init__: the requests it makes, how it ends, and the
\* token it keeps.
OpalstackAPITool(host, token, resp) ==
    IF ~NeedsLogin(token)
    THEN [calls |-> <<>>, raised |-> "none", authtoken |-> token]
    ELSE IF resp = "fault"
    THEN [calls |-> <<LoginCall(host)>>, raised |-> "HTTPException",
          authtoken |-> ""]
    ELSE IF resp \in {"missing", ""}
    THEN [calls |-> <<LoginCall(host)>>, raised |-> "SystemExit",
          authtoken |-> ""]
    ELSE [calls |-> <<LoginCall(host)>>, raised |-> "none",
          authtoken |-> resp]

\* ----------------------------------------------------------------- main()

\* The process starts: the module is imported (API_HOST is computed), the
\* arguments are parsed.
StartRun ==
    /\ pc = "idle" \/ Ended
    /\ run < MaxRuns
    /\ run' = run + 1
    /\ pc' = "init_api"
    /\ fault' = "none"
    /\ exitStatus' = -1
    /\ opal_token' \in Tokens
    /\ loginResp' = "none"
    /\ authtoken' = ""
    /\ calls' = <<>>
    /\ API_HOST' = ApiHostOf(api_url)
    /\ last' = NoCmd
    /\ ncmds' = 0
    /\ fs0' = fs
    /\ cron0' = crontab
    /\ stepsDone' = {}
    /\ written' = {}
    /\ croncmd' = JobLine(0)
    /\ cronBefore' = <<>>
    /\ tmpContent' = <<>>
    /\ UNCHANGED <<fs, siteTree, scaffoldLog, crontab, tmpfiles, cronInit,
                   ndone, nfailed, api_url>>

\* api = OpalstackAPITool(API_HOST, API_BASE_URI, args.opal_token, ...)
InitApi ==
    /\ pc = "init_api"
    /\ \E resp \in LoginResps :
        LET r == OpalstackAPITool(API_HOST, opal_token, resp)
        IN  /\ resp = "tokS" \/ r.calls # <<>>
            /\ calls' = calls \o r.calls
            /\ loginResp' = IF r.calls = <<>> THEN "none" ELSE resp
            /\ authtoken' = r.authtoken
            /\ IF r.raised # "none" THEN Raise(r.raised) ELSE Advance
    /\ UNCHANGED <<opal_token, fsVars, cronVars, cmdVars, runVars>>

\* appinfo = api.get(f'/app/read/{args.app_uuid}') and its two fields
AppRead ==
    /\ pc = "app_read"
    /\ calls' = Append(calls, get(API_HOST, authtoken, <<"/app/read/", "uuid1">>))
    /\ \E resp \in {"ok", "fault", "nofield"} :
        CASE resp = "ok" -> Advance
          [] resp = "fault" -> Raise("HTTPException")
          [] resp = "nofield" -> Raise("KeyError")
    /\ UNCHANGED <<opal_token, loginResp, authtoken, fsVars, cronVars,
                   cmdVars, runVars>>

\* os.makedirs(appdir, exist_ok=True) if it is missing, then
\* os.makedirs(tmpdir, exist_ok=True); either may raise OSError.
Mkdirs ==
    /\ pc = "mkdirs"
    /\ \E f \in {"none", "appdir", "tmpdir"} :
        CASE f = "none" ->
               /\ fs' = [fs EXCEPT !["appdir"] = Dir, !["tmpdir"] = Dir]
               /\ Advance
          [] f = "appdir" ->
               /\ fs["appdir"].kind # "dir"
               /\ UNCHANGED fs
               /\ Raise("OSError")
          [] f = "tmpdir" ->
               /\ fs["tmpdir"].kind # "dir"
               /\ fs' = [fs EXCEPT !["appdir"] = Dir]
               /\ Raise("OSError")
    /\ UNCHANGED <<apiVars, siteTree, scaffoldLog, written, cronVars,
                   cmdVars, runVars>>

\* A run_command call of main() whose result is not used, or is decoded:
\* the outcome is drawn, the call is recorded in `last`.
Command(cmd, decoded) ==
    \E exit \in Exits, out \in Outs \cup {<<>>} :
        /\ exit = "nolaunch" => out = <<>>
        /\ exit # "nolaunch" => out \in IF decoded THEN Outs ELSE {<<OutLine>>}
        /\ last' = Ran(cmd, exit, out)
        /\ ncmds' = ncmds + 1
        /\ IF last'.raised # "none" THEN Raise(last'.raised)
           ELSE IF decoded /\ decode(last'.result).raised # "none"
           THEN Raise(decode(last'.result).raised)
           ELSE Advance

\* run_command("gem install jekyll bundler --user-install", CMD_ENV, cwd=appdir)
GemInstall ==
    /\ pc = "gem_install"
    /\ Command("gem install", FALSE)
    /\ UNCHANGED <<apiVars, fsVars, cronVars, runVars>>

\* gem_user_dir = run_command("ruby -r rubygems -e ...").decode().strip()
GemUserDir ==
    /\ pc = "gem_user_dir"
    /\ Command("ruby", TRUE)
    /\ UNCHANGED <<apiVars, fsVars, cronVars, runVars>>

\* jekyll_version = run_command("jekyll -v", ...).decode().strip()
JekyllVersion ==
    /\ pc = "jekyll_version"
    /\ Command("jekyll -v", TRUE)
    /\ UNCHANGED <<apiVars, fsVars, cronVars, runVars>>

\* The scaffold step without its existence check.
ShouldScaffoldAlways(fsv) == TRUE

\* if not os.path.isdir(site_dir)
ShouldScaffold(fsv) == fsv["site"].kind # "dir"

\* The scaffold step: run_command("jekyll new demo-site") unless demo-site
\* is a directory.  The command may leave the directory in place or not
\* when it fails; it creates it when it succeeds.
Scaffold ==
    /\ pc = "scaffold"
    /\ IF ShouldScaffold(fs)
       THEN \E exit \in Exits, out \in {<<>>, <<OutLine>>},
                  created \in BOOLEAN :
              /\ (exit = "nolaunch") = (out = <<>>)
              /\ exit = "nolaunch" => ~created
              /\ exit = "zero" => created
              /\ last' = Ran("jekyll new", exit, out)
              /\ ncmds' = ncmds + 1
              /\ scaffoldLog' = Append(scaffoldLog,
                    [run |-> run, existed |-> fs["site"].kind = "dir",
                     executed |-> exit # "nolaunch", created |-> created])
              /\ fs' = IF created THEN [fs EXCEPT !["site"] = Dir] ELSE fs
              /\ siteTree' = IF created THEN run ELSE siteTree
              /\ IF last'.raised # "none" THEN Raise(last'.raised)
                 ELSE Advance
       ELSE /\ scaffoldLog' = Append(scaffoldLog,
                    [run |-> run, existed |-> TRUE, executed |-> FALSE,
                     created |-> FALSE])
            /\ UNCHANGED <<fs, siteTree, last, ncmds>>
            /\ Advance
    /\ UNCHANGED <<apiVars, written, cronVars, runVars>>

\* os.chdir(site_dir)
Chdir ==
    /\ pc = "chdir"
    /\ IF fs["site"].kind = "dir" THEN Advance ELSE Raise("OSError")
    /\ UNCHANGED <<apiVars, fsVars, cronVars, cmdVars, runVars>>

\* if not os.path.isdir(posts_dir): os.makedirs(posts_dir)
MkPosts ==
    /\ pc = "mk_posts"
    /\ IF fs["posts"].kind = "dir"
       THEN UNCHANGED fs /\ Advance
       ELSE \E ok \in BOOLEAN :
              IF ok THEN fs' = [fs EXCEPT !["posts"] = Dir] /\ Advance
              ELSE UNCHANGED fs /\ Raise("OSError")
    /\ UNCHANGED <<apiVars, siteTree, scaffoldLog, written, cronVars,
                   cmdVars, runVars>>

\* A create_file call of main().
Create(path, perms) ==
    \E wfault \in BOOLEAN, newmode \in NewFileModes :
        LET r == create_file(fs, path, perms, wfault, newmode)
        IN  /\ fs' = r.fs
            /\ IF r.raised # "none"
               THEN UNCHANGED written /\ Raise(r.raised)
               ELSE written' = written \cup {path} /\ Advance

\* if not os.path.exists(post_path): create_file(post_path, ..., perms=0o644)
SamplePost ==
    /\ pc = "sample_post"
    /\ IF fs["post"].kind = "absent"
       THEN Create("post", PublicPerms)
       ELSE UNCHANGED <<fs, written>> /\ Advance
    /\ UNCHANGED <<apiVars, siteTree, scaffoldLog, cronVars, cmdVars,
                   runVars>>

\* run_command("bundle exec jekyll build", CMD_ENV, cwd=site_dir)
Build ==
    /\ pc = "build"
    /\ Command("jekyll build", FALSE)
    /\ UNCHANGED <<apiVars, fsVars, cronVars, runVars>>

\* create_file(start_script_path, start_jekyll, perms=0o700)
StartScript ==
    /\ pc = "start_script"
    /\ Create("start", ScriptPerms)
    /\ UNCHANGED <<apiVars, siteTree, scaffoldLog, cronVars, cmdVars,
                   runVars>>

\* create_file(stop_script_path, stop_jekyll, perms=0o700)
StopScript ==
    /\ pc = "stop_script"
    /\ Create("stop", ScriptPerms)
    /\ UNCHANGED <<apiVars, siteTree, scaffoldLog, cronVars, cmdVars,
                   runVars>>

\* add_cronjob: try: current = run_command('crontab -l', env).decode()
\*              except Exception: current = ''
cron_current(exit, out) ==
    LET r == run_command(exit, out)
    IN  IF r.raised # "none" THEN <<>>
        ELSE IF decode(r.result).raised # "none" THEN <<>>
        ELSE decode(r.result).text

\* add_cronjob: tmp.write(current); tmp.write(f'{cronjob}\n')
cron_tmp(current, cronjob) == current \o <<cronjob>>

\* m = random.randint(0,9); croncmd = ...; add_cronjob, up to the end of
\* its with block: the temp file is opened, the crontab listed, the file
\* written.  `crontab -l` prints the crontab when it exits zero.
CronList ==
    /\ pc = "cron_list"
    /\ \E m \in 0..MaxMinute, openok \in BOOLEAN, exit \in Exits,
          out \in FailOuts \cup {crontab} :
        /\ exit = "zero" => out = crontab
        /\ exit = "nonzero" => out \in FailOuts
        /\ exit = "nolaunch" \/ ~openok => out = <<>>
        /\ croncmd' = JobLine(m)
        /\ cronBefore' = crontab
        /\ IF openok
           THEN /\ last' = Ran("crontab -l", exit, out)
                /\ ncmds' = ncmds + 1
                /\ tmpContent' = cron_tmp(cron_current(exit, out), croncmd')
                /\ tmpfiles' = tmpfiles \cup {run}
                /\ Advance
           ELSE /\ exit = "zero"
                /\ UNCHANGED <<last, ncmds, tmpContent, tmpfiles>>
                /\ Raise("OSError")
    /\ UNCHANGED <<apiVars, fsVars, crontab, runVars>>

\* add_cronjob: run_command(f'crontab {tmpname}', env).  crontab installs
\* the file when it exits zero and leaves the crontab alone otherwise.
CronInstall ==
    /\ pc = "cron_install"
    /\ \E exit \in Exits :
        /\ last' = Ran("crontab", exit, <<>>)
        /\ ncmds' = ncmds + 1
        /\ crontab' = IF exit = "zero" THEN tmpContent ELSE crontab
        /\ IF last'.raised # "none" THEN Raise(last'.raised) ELSE Advance
    /\ UNCHANGED <<apiVars, fsVars, croncmd, cronBefore, tmpContent,
                   tmpfiles, runVars>>

\* add_cronjob: run_command(f'rm -f {tmpname}', env).  rm removes the file
\* when it exits zero.
CronRm ==
    /\ pc = "cron_rm"
    /\ \E exit \in Exits :
        /\ last' = Ran("rm -f", exit, <<>>)
        /\ ncmds' = ncmds + 1
        /\ tmpfiles' = IF exit = "zero" THEN tmpfiles \ {run} ELSE tmpfiles
        /\ IF last'.raised # "none" THEN Raise(last'.raised) ELSE Advance
    /\ UNCHANGED <<apiVars, fsVars, crontab, croncmd, cronBefore,
                   tmpContent, runVars>>

\* create_file(readme_path, readme, perms=0o644)
Readme ==
    /\ pc = "readme"
    /\ Create("readme", PublicPerms)
    /\ UNCHANGED <<apiVars, siteTree, scaffoldLog, cronVars, cmdVars,
                   runVars>>

\* payload = json.dumps([{'id': args.app_uuid}])
\* finished = api.post('/app/installed/', payload)
\* and main() returns: the process exits with status 0.
Notify ==
    /\ pc = "notify"
    /\ calls' = Append(calls, post(API_HOST, authtoken, <<"/app/installed/">>,
                                   <<"id", "uuid1">>))
    /\ \E ok \in BOOLEAN :
        IF ok
        THEN /\ pc' = NextStep(pc)
             /\ stepsDone' = stepsDone \cup {pc}
             /\ exitStatus' = 0
             /\ ndone' = ndone + 1
             /\ UNCHANGED <<fault, nfailed>>
        ELSE /\ Raise("HTTPException")
             /\ UNCHANGED ndone
    /\ UNCHANGED <<opal_token, loginResp, authtoken, fsVars, cronVars,
                   cmdVars, run, fs0, cron0, cronInit, api_url, API_HOST>>

Next ==
    \/ StartRun
    \/ InitApi
    \/ AppRead
    \/ Mkdirs
    \/ GemInstall
    \/ GemUserDir
    \/ JekyllVersion
    \/ Scaffold
    \/ Chdir
    \/ MkPosts
    \/ SamplePost
    \/ Build
    \/ StartScript
    \/ StopScript
    \/ CronList
    \/ CronInstall
    \/ CronRm
    \/ Readme
    \/ Notify

Spec == Init /\ [][Next]_vars

\* ------------------------------------------------- API_HOST, on its own

\* Characters of the host names tried: one that 'https://' holds and a host
\* name may start or end with, one it does not hold, and the slash.
HostChars == {"s", "m", "/"}
Hosts == UNION {[1..k -> HostChars] : k \in 0..MaxHostLen}
\* API_URL values: a host alone, or behind 'https://' or 'http://'.
ApiUrls == Hosts \cup {HTTPS \o h : h \in Hosts} \cup {HTTP \o h : h \in Hosts}

InitHost == InitWith({Pristine}, {<<>>}, ApiUrls)

\* The module-level statement that sets API_HOST, for any API_URL.
ImportModule ==
    /\ pc = "idle"
    /\ pc' = "imported"
    /\ API_HOST' = ApiHostOf(api_url)
    /\ UNCHANGED <<run, fault, exitStatus, apiVars, fsVars, cronVars, cmdVars,
                   fs0, cron0, cronInit, stepsDone, ndone, nfailed, api_url>>

NextHost == ImportModule

SpecHost == InitHost /\ [][NextHost]_vars

\* ================================================================ claims

InstalledEndpoint == <<API_BASE_URI, "/app/installed/">>
LoginEndpoint == <<API_BASE_URI, "/login/">>
InstalledPosts == {i \in DOMAIN calls : calls[i].endpoint = InstalledEndpoint}
Logins == {i \in DOMAIN calls : calls[i].endpoint = LoginEndpoint}
EarlierSteps == Chars(Steps) \ {"notify"}

\* C1: in a run of main() the POST to /app/installed/ with payload
\* [{"id": <app_uuid>}] is issued at most once, and only when every earlier
\* step of the run has completed; a run that an earlier step ended has
\* issued no such POST, and what it had written is still on disk.
C1_InstalledOnlyAfterAllSteps ==
    /\ Cardinality(InstalledPosts) <= 1
    /\ \A i \in InstalledPosts :
        /\ calls[i].method = "POST"
        /\ calls[i].payload = <<"id", "uuid1">>
        /\ EarlierSteps \subseteq stepsDone
    /\ (Ended /\ ~(EarlierSteps \subseteq stepsDone)) => InstalledPosts = {}
    /\ pc = "done" => Cardinality(InstalledPosts) = 1 /\ exitStatus = 0
    /\ \A p \in written : fs[p].kind = "file"
    /\ "mkdirs" \in stepsDone =>
         fs["appdir"].kind = "dir" /\ fs["tmpdir"].kind = "dir"

\* C1 witness: a run reached the end of main() and issued the POST, and a
\* run before it was ended by an exception.
C1_Witness ==
    pc = "done" /\ InstalledPosts # {} /\ nfailed > 0 /\ written # {}

\* C2: with a token supplied no login request is made and no request
\* carries the credentials; without one, exactly one login POST is made,
\* it is the first request, and every other request carries
\* 'Authorization: Token <token>' with the token the login returned.
C2_LoginOnlyWithoutToken ==
    /\ (run > 0 /\ opal_token # "") =>
         /\ Logins = {}
         /\ \A i \in DOMAIN calls :
              /\ calls[i].headers = Headers(opal_token)
              /\ "user1" \notin Chars(calls[i].payload)
              /\ "pass1" \notin Chars(calls[i].payload)
    /\ (run > 0 /\ opal_token = "" /\ pc # "init_api") =>
         /\ Logins = {1}
         /\ calls[1] = LoginCall(API_HOST)
         /\ \A i \in DOMAIN calls \ {1} :
              /\ loginResp \notin {"fault", "missing", ""}
              /\ calls[i].headers = Headers(loginResp)

\* C2 witness: a run without a token logged in, read the app and notified.
C2_Witness ==
    pc = "done" /\ opal_token = "" /\ Len(calls) = 3

\* C3: without a token, a login response with no or an empty token field
\* ends the process with exit status 1 after that one login request; no
\* other request was made, no command run, no file or directory created
\* and the crontab is as it was.
C3_LoginFailureExitsClean ==
    (run > 0 /\ opal_token = "" /\ loginResp \in {"missing", ""}) =>
        /\ pc = "exited"
        /\ exitStatus = 1
        /\ fault = "SystemExit"
        /\ calls = <<LoginCall(API_HOST)>>
        /\ ncmds = 0
        /\ fs = fs0
        /\ crontab = cron0
        /\ run \notin tmpfiles
        /\ stepsDone = {}

\* C3 witness: the second run exited on a login response without a token,
\* on an account the first run had installed to.
C3_Witness ==
    pc = "exited" /\ loginResp = "missing" /\ run = 2 /\ ndone = 1

\* C4: once add_cronjob(L, env) has returned, the installed crontab is the
\* crontab it found followed by L, and its temporary file is gone.
C4_CrontabIsOldPlusLine ==
    "cron_rm" \in stepsDone =>
        /\ crontab = cronBefore \o <<croncmd>>
        /\ run \notin tmpfiles

\* C5: after n runs of main(), all completed, the crontab is the initial
\* crontab followed by n start_jekyll lines.
C5_OneLinePerCompletedRun ==
    (pc = "done" /\ nfailed = 0) =>
        /\ Len(crontab) = Len(cronInit) + ndone
        /\ SubSeq(crontab, 1, Len(cronInit)) = cronInit
        /\ \A i \in DOMAIN crontab :
             i > Len(cronInit) => crontab[i].kind = "start_jekyll"

Executed == {i \in DOMAIN scaffoldLog : scaffoldLog[i].executed}

\* C6 as stated: 'jekyll new demo-site' is executed only when demo-site is
\* absent, an existing demo-site is left as it is, and over the scaffold
\* steps reached the command is executed at most once.
C6_ScaffoldAtMostOnce ==
    /\ \A i \in Executed : ~scaffoldLog[i].existed
    /\ Cardinality(Executed) <= 1

\* C6 as amended: 'jekyll new demo-site' is executed only when demo-site is
\* absent, an existing demo-site is left as it is (the tree is the one its
\* first creation made), and once an execution has left the directory in
\* place no later scaffold step executes the command.
C6_ScaffoldOnlyWhenAbsent ==
    /\ \A i \in Executed : ~scaffoldLog[i].existed
    /\ \A i, j \in DOMAIN scaffoldLog :
         (i < j /\ scaffoldLog[i].created) => ~scaffoldLog[j].executed
    /\ \A i \in DOMAIN scaffoldLog :
         scaffoldLog[i].existed =>
            siteTree < scaffoldLog[i].run /\ fs["site"].kind = "dir"
    /\ Cardinality({i \in DOMAIN scaffoldLog : scaffoldLog[i].created}) <= 1

\* C6 witness: two scaffold steps; the first created the directory, the
\* second found it and skipped the command.
C6_Witness ==
    /\ Len(scaffoldLog) = 2
    /\ scaffoldLog[1].created
    /\ scaffoldLog[2].existed /\ ~scaffoldLog[2].executed
    /\ siteTree = 1

\* The step of main() that makes each run_command call.
CmdStep(cmd) ==
    CASE cmd = "gem install" -> "gem_install"
      [] cmd = "ruby" -> "gem_user_dir"
      [] cmd = "jekyll -v" -> "jekyll_version"
      [] cmd = "jekyll new" -> "scaffold"
      [] cmd = "jekyll build" -> "build"
      [] cmd = "crontab -l" -> "cron_list"
      [] cmd = "crontab" -> "cron_install"
      [] cmd = "rm -f" -> "cron_rm"

create_file_default(fsv, path, wfault, newmode) ==
    create_file(fsv, path, DefaultPerms, wfault, newmode)

Requested(path) ==
    IF path \in {"start", "stop"} THEN 448 ELSE 420

\* C8: a file create_file has returned for has exactly the requested mode,
\* whatever its mode was: 0700 for start_jekyll and stop_jekyll, 0644 for
\* the README and the sample post written in this run; and create_file
\* without a perms argument, on any file here, gives 0600.
C8_ModeIsRequested ==
    /\ \A p \in written : fs[p] = File(Requested(p))
    /\ \A p \in FilePaths, newmode \in NewFileModes :
         LET r == create_file_default(fs, p, FALSE, newmode)
         IN  r.raised = "none" => r.fs[p] = File(384)

\* C8 witness: the two scripts and the README were written in this run over
\* files that had mode 0777.
C8_Witness ==
    /\ {"start", "stop", "readme"} \subseteq written
    /\ \A p \in written : fs0[p] = File(511)

\* The API_URL with its protocol prefix removed, nothing else changed.
IsPrefix(p, s) == Len(p) <= Len(s) /\ SubSeq(s, 1, Len(p)) = p
WithoutProtocol(url) ==
    IF IsPrefix(HTTPS, url) THEN SubSeq(url, Len(HTTPS) + 1, Len(url))
    ELSE IF IsPrefix(HTTP, url) THEN SubSeq(url, Len(HTTP) + 1, Len(url))
    ELSE url

\* C9: API_HOST is API_URL without its 'https://' or 'http://' prefix and
\* is otherwise API_URL unchanged.
C9_HostIsUrlWithoutProtocol ==
    pc = "imported" => API_HOST = WithoutProtocol(api_url)

\* C10: when the crontab-list command fails (it exits non-zero or cannot be
\* launched), add_cronjob writes exactly the new line to its temporary
\* file, whatever the command printed.
C10_ListFailureMeansEmpty ==
    (last.cmd = "crontab -l" /\ last.exit # "zero") =>
        tmpContent = <<croncmd>>

====
